---- MODULE Spec2Model ----
(***************************************************************************)
(* Model of scripts/db/validate.js: the two-phase validator of the seven   *)
(* CSV tables (load and index every table, then validate the requested     *)
(* ones, accumulate the errors and decide the exit status).                *)
(*                                                                         *)
(* Representation.                                                         *)
(*  - A string is a TLA+ string; toLowerCase is tabulated over the ids the *)
(*    model draws.  A line of raw text is a sequence of characters, and a  *)
(*    file's csvString is the sequence of its lines (csvString split on    *)
(*    CRLF, line 37).                                                      *)
(*  - A broadcast_area element is the sequence of its "/"-separated        *)
(*    segments: <<"c", "fr">> is the string c/fr, <<"c">> the string c.    *)
(*  - A row is a record of its columns.  Rows are JavaScript objects shared*)
(*    between files[name] and db[name]: db[name] maps a key to the         *)
(*    POSITION of its row in files[name], so a write to a row through one  *)
(*    is seen through the other.                                           *)
(*  - An error is [line, message]; a message is the tuple of its template  *)
(*    and the values interpolated into it.                                 *)
(*  - What file.eol and csv.fromString (../core) answer for a file is part *)
(*    of the file on disk: eol, parseError and data.                       *)
(***************************************************************************)
EXTENDS Integers, Sequences, FiniteSets, TLC

VARIABLES
  disk,          \* the files on disk: filepath -> [eol, lines, parseError, data]
  args,          \* program.args (line 8), read at line 67
  db,            \* line 20: filename -> index (key -> position of the row)
  files,         \* line 21: filename -> rows
  pc,            \* where main is
  li,            \* position of the load loop in allFiles (line 26)
  ci,            \* position of the validation loop in toCheck (line 68)
  fileErrors,    \* line 74: the error list of the file validated last
  globalErrors,  \* line 24
  output,        \* what logger printed, in order
  exitCode       \* the process's exit status

vars == <<disk, args, db, files, pc, li, ci, fileErrors, globalErrors, output, exitCode>>

----------------------------------------------------------------------------
(* Bounds *)

MaxChannelRows == 3
MaxRows == 2
MaxLineLen == 3

SeqUpTo(S, n) == UNION {[1..k -> S] : k \in 0..n}

----------------------------------------------------------------------------
(* Configuration *)

allFiles == <<"data/blocklist.csv", "data/categories.csv", "data/channels.csv",
              "data/countries.csv", "data/languages.csv", "data/regions.csv",
              "data/subdivisions.csv">>

Names == {"blocklist", "categories", "channels", "countries", "languages",
          "regions", "subdivisions"}

\* require('./schemes'): one rule set per known table.
schemes == Names

\* file.getFilename: the base name of the path without its extension.
getFilename(filepath) ==
  CASE filepath = "data/blocklist.csv" -> "blocklist"
    [] filepath = "data/categories.csv" -> "categories"
    [] filepath = "data/channels.csv" -> "channels"
    [] filepath = "data/countries.csv" -> "countries"
    [] filepath = "data/languages.csv" -> "languages"
    [] filepath = "data/regions.csv" -> "regions"
    [] filepath = "data/subdivisions.csv" -> "subdivisions"
    [] OTHER -> "foo"

\* String.prototype.toLowerCase over the ids of the model.
toLowerCase(s) ==
  CASE s = "Ab" -> "ab"
    [] s = "AB" -> "ab"
    [] s = "Cd" -> "cd"
    [] OTHER -> s

----------------------------------------------------------------------------
(* Phase 1: the table loader (lines 26-47) *)

Whitespace == {" ", "\t"}

\* Number of positions of s holding character c.
Count(s, c) == Cardinality({p \in 1..Len(s) : s[p] = c})

\* Number of double quotes of line after position p.
QuotesAfter(line, p) == Cardinality({q \in (p + 1)..Len(line) : line[q] = "\""})

\* line 38: rows[0].split(',').length
PlainColumns(line) == 1 + Count(line, ",")

\* line 40: line.split(/,(?=(?:(?:[^"]*"){2})*[^"]*$)/).length: the line is cut
\* at every comma that an even number of double quotes follows.
QuoteAwareColumns(line) ==
  1 + Cardinality({p \in 1..Len(line) : line[p] = "," /\ QuotesAfter(line, p) % 2 = 0})

\* line 38: headers.length
HeaderColumns(lines) == PlainColumns(lines[1])

\* lines 39-42: the number (i + 1) of the first line whose column count is not
\* the header's, 0 when every line has it.
ColumnCheck(lines) ==
  LET bad == {i \in 1..Len(lines) : QuoteAwareColumns(lines[i]) # HeaderColumns(lines)}
  IN IF bad = {} THEN 0 ELSE CHOOSE i \in bad : \A j \in bad : i <= j

\* line 34: /\s+$/.test(csvString), csvString being the lines joined by CRLF.
EndsWithWhitespace(lines) ==
  LET last == lines[Len(lines)]
  IN IF last = <<>> THEN Len(lines) > 1 ELSE last[Len(last)] \in Whitespace

\* Mutant: the line-ending test of lines 29-31 left out.
FormatCheckNoEol(filepath) ==
  LET f == disk[filepath]
  IN IF EndsWithWhitespace(f.lines)
       THEN <<"Error: empty lines at the end of file not allowed", filepath>>
     ELSE IF ColumnCheck(f.lines) # 0
       THEN <<"Error: row has the wrong number of columns", ColumnCheck(f.lines), filepath>>
     ELSE IF f.parseError
       THEN <<"csv parse error", filepath>>
     ELSE <<>>

\* lines 29-47: the fatal message the file is rejected with, <<>> when it loads.
FormatCheck(filepath) ==
  LET f == disk[filepath]
  IN IF f.eol # "CRLF"
       THEN <<"Error: file must have line endings with CRLF", filepath>>
     ELSE IF EndsWithWhitespace(f.lines)
       THEN <<"Error: empty lines at the end of file not allowed", filepath>>
     ELSE IF ColumnCheck(f.lines) # 0
       THEN <<"Error: row has the wrong number of columns", ColumnCheck(f.lines), filepath>>
     ELSE IF f.parseError
       THEN <<"csv parse error", filepath>>
     ELSE <<>>

----------------------------------------------------------------------------
(* Phase 1: the index builder (lines 49-64) *)

\* lines 50-61: the key field of a table.
KeyField(filename) ==
  CASE filename = "blocklist" -> "channel"
    [] filename \in {"categories", "channels"} -> "id"
    [] OTHER -> "code"

\* Mutant: the key is lower-cased before indexing.
keyByLowerCased(data, field) ==
  [k \in {toLowerCase(data[i][field]) : i \in 1..Len(data)} |->
     CHOOSE i \in 1..Len(data) :
       /\ toLowerCase(data[i][field]) = k
       /\ \A j \in 1..Len(data) : toLowerCase(data[j][field]) = k => j <= i]

\* _.keyBy(data, field): key -> the row holding it, the last one when several do.
keyBy(data, field) ==
  [k \in {data[i][field] : i \in 1..Len(data)} |->
     CHOOSE i \in 1..Len(data) :
       /\ data[i][field] = k
       /\ \A j \in 1..Len(data) : data[j][field] = k => j <= i]

\* The members every plain object inherits from Object.prototype; each is
\* truthy (a function, or for __proto__ the prototype object).
ObjectPrototype ==
  {"constructor", "toString", "toLocaleString", "valueOf", "hasOwnProperty",
   "isPrototypeOf", "propertyIsEnumerable", "__proto__", "__defineGetter__",
   "__defineSetter__", "__lookupGetter__", "__lookupSetter__"}

\* db[table][key] is truthy: the index (a plain object built by _.keyBy) holds
\* the key, its value a row object, or inherits it from Object.prototype.
Has(table, key) == key \in DOMAIN db[table] \/ key \in ObjectPrototype

\* Mutant: the message is logged and the run ends, process.exit(1) left out.
handleErrorNoExit(message) ==
  /\ output' = Append(output, <<"fatal", message>>)
  /\ exitCode' = exitCode
  /\ pc' = "done"

\* lines 305-308
handleError(message) ==
  /\ output' = Append(output, <<"fatal", message>>)
  /\ exitCode' = 1
  /\ pc' = "done"

----------------------------------------------------------------------------
(* Phase 2: the validators.  i is the row's zero-based position, as in the  *)
(* code.                                                                    *)

\* The errors one validator pushes: one per value of bad, in order.
Errors(i, template, subject, bad) ==
  [k \in 1..Len(bad) |-> [line |-> i + 2, message |-> <<template, subject, bad[k]>>]]

\* lines 129-133: rows.map writes the lower-cased id into each row object.
LowerCased(rows) == [p \in 1..Len(rows) |-> [rows[p] EXCEPT !.id = toLowerCase(@)]]

\* lines 136-137: Joi.array().unique(comparator).validate(rows, {abortEarly: false}).
\* The unique rule walks the items in order and returns its error at the first
\* item that equals an earlier one: error.details holds at most one entry.
UniqueDetails(rows) ==
  LET dup == {p \in 1..Len(rows) : \E q \in 1..(p - 1) : rows[q].id = rows[p].id}
      first == CHOOSE p \in dup : \A q \in dup : p <= q
  IN IF dup = {} THEN <<>> ELSE <<[pos |-> first - 1, value |-> rows[first]]>>

\* lines 128-148, on the rows as lines 129-133 left them.
findDuplicatesById(rows) ==
  LET details == UniqueDetails(LowerCased(rows))
  IN [k \in 1..Len(details) |->
        [line |-> details[k].pos + 2,
         message |-> <<"entry with the id already exists", details[k].value.id>>]]

\* lines 172-184
validateChannelCategories(row, i) ==
  Errors(i, "has the wrong category", row.id,
         SelectSeq(row.categories, LAMBDA c : ~Has("categories", c)))

\* lines 186-196
validateChannelCountry(row, i) ==
  IF ~Has("countries", row.country)
    THEN Errors(i, "has the wrong country", row.id, <<row.country>>)
    ELSE <<>>

\* lines 198-208
validateChannelReplacedBy(row, i) ==
  IF row.replaced_by # "" /\ ~Has("channels", row.replaced_by)
    THEN Errors(i, "has the wrong replaced_by", row.id, <<row.replaced_by>>)
    ELSE <<>>

\* lines 210-220
validateChannelSubdivision(row, i) ==
  IF row.subdivision # "" /\ ~Has("subdivisions", row.subdivision)
    THEN Errors(i, "has the wrong subdivision", row.id, <<row.subdivision>>)
    ELSE <<>>

\* line 225: const [type, code] = area.split('/'); a missing code is undefined,
\* which as a property key reads "undefined".
AreaType(area) == area[1]
AreaCode(area) == IF Len(area) >= 2 THEN area[2] ELSE "undefined"

\* lines 226-230
AreaFails(area) ==
  \/ AreaType(area) = "r" /\ ~Has("regions", AreaCode(area))
  \/ AreaType(area) = "c" /\ ~Has("countries", AreaCode(area))
  \/ AreaType(area) = "s" /\ ~Has("subdivisions", AreaCode(area))

\* lines 222-239
validateChannelBroadcastArea(row, i) ==
  Errors(i, "has the wrong broadcast_area", row.id,
         SelectSeq(row.broadcast_area, AreaFails))

\* lines 241-253
validateChannelLanguages(row, i) ==
  Errors(i, "has the wrong language", row.id,
         SelectSeq(row.languages, LAMBDA l : ~Has("languages", l)))

\* lines 255-265
validateChannelId(row, i) ==
  IF ~Has("channels", row.channel)
    THEN [k \in 1..1 |->
            [line |-> i + 2, message |-> <<"is missing in the channels.csv", row.channel>>]]
    ELSE <<>>

\* lines 267-277
validateCountryLanguage(row, i) ==
  IF ~Has("languages", row.lang)
    THEN Errors(i, "has the wrong language", row.code, <<row.lang>>)
    ELSE <<>>

\* lines 279-289
validateSubdivisionCountry(row, i) ==
  IF ~Has("countries", row.country)
    THEN Errors(i, "has the wrong country", row.code, <<row.country>>)
    ELSE <<>>

\* lines 291-303
validateRegionCountries(row, i) ==
  Errors(i, "has the wrong country", row.code,
         SelectSeq(row.countries, LAMBDA c : ~Has("countries", c)))

\* lines 75-101: what one pass of the table's row loop appends.
RowErrors(filename, row, i) ==
  CASE filename = "channels" ->
         validateChannelBroadcastArea(row, i) \o validateChannelSubdivision(row, i)
           \o validateChannelCategories(row, i) \o validateChannelReplacedBy(row, i)
           \o validateChannelLanguages(row, i) \o validateChannelCountry(row, i)
    [] filename = "blocklist" -> validateChannelId(row, i)
    [] filename = "countries" -> validateCountryLanguage(row, i)
    [] filename = "subdivisions" -> validateSubdivisionCountry(row, i)
    [] filename = "regions" -> validateRegionCountries(row, i)
    [] OTHER -> <<>>

\* The schema of a table (./schemes), as far as the model needs it: the key
\* field is a required, non-empty string.
SchemaDetails(filename, row) ==
  IF row[KeyField(filename)] = ""
    THEN <<<<"is not allowed to be empty", KeyField(filename)>>>>
    ELSE <<>>

\* lines 105-110: the schema errors of one row.
SchemaRowErrors(filename, row, i) ==
  LET details == SchemaDetails(filename, row)
  IN [k \in 1..Len(details) |-> [line |-> i + 2, message |-> details[k]]]

RECURSIVE ReferentialErrors(_, _, _)
\* lines 77-100: the row loop, from position p (one-based) on.
ReferentialErrors(filename, rows, p) ==
  IF p > Len(rows) THEN <<>>
  ELSE RowErrors(filename, rows[p], p - 1) \o ReferentialErrors(filename, rows, p + 1)

RECURSIVE SchemaErrors(_, _, _)
\* lines 103-111: rows.forEach, from position p (one-based) on.
SchemaErrors(filename, rows, p) ==
  IF p > Len(rows) THEN <<>>
  ELSE SchemaRowErrors(filename, rows[p], p - 1) \o SchemaErrors(filename, rows, p + 1)

\* lines 75-76: only channels are searched for duplicates.
DuplicateErrors(filename, rows) ==
  IF filename = "channels" THEN findDuplicatesById(rows) ELSE <<>>

\* lines 72, 76: the rows the validators of a table see, and leave in files.
RowsAfterDuplicates(filename, rows) ==
  IF filename = "channels" THEN LowerCased(rows) ELSE rows

\* Mutant: the schema errors are collected before the referential ones.
FileErrorsSchemaFirst(filename, rows) ==
  DuplicateErrors(filename, rows)
    \o SchemaErrors(filename, RowsAfterDuplicates(filename, rows), 1)
    \o ReferentialErrors(filename, RowsAfterDuplicates(filename, rows), 1)

\* lines 74-111: the error list of one file.
FileErrors(filename, rows) ==
  DuplicateErrors(filename, rows)
    \o ReferentialErrors(filename, RowsAfterDuplicates(filename, rows), 1)
    \o SchemaErrors(filename, RowsAfterDuplicates(filename, rows), 1)

----------------------------------------------------------------------------
(* The inputs: the seven files on disk and the requested files *)

GoodText == << <<"x", ",", "x">>, <<"x", ",", "x">> >>

Channel(id, country, subdivision, categories, replaced_by, languages, broadcast_area) ==
  [id |-> id, country |-> country, subdivision |-> subdivision,
   categories |-> categories, replaced_by |-> replaced_by,
   languages |-> languages, broadcast_area |-> broadcast_area]

BaseChannel(id, replaced_by) ==
  Channel(id, "fr", "", <<"kids">>, replaced_by, <<"en">>, <<<<"c", "fr">>>>)

\* A consistent dataset: every reference resolves, no duplicates.
BaseData ==
  [n \in Names |->
     CASE n = "blocklist" -> <<[channel |-> "Ab"]>>
       [] n = "categories" -> <<[id |-> "kids"]>>
       [] n = "channels" -> <<BaseChannel("Ab", "")>>
       [] n = "countries" -> <<[code |-> "fr", lang |-> "en"]>>
       [] n = "languages" -> <<[code |-> "en"]>>
       [] n = "regions" -> <<[code |-> "EU", countries |-> <<"fr">>]>>
       [] n = "subdivisions" -> <<[code |-> "s1", country |-> "fr"]>>]

\* The rows a table's varied contents are drawn from.
RowsOf(n) ==
  CASE n = "blocklist" -> {[channel |-> c] : c \in {"Ab", "ab", "cd", "constructor", ""}}
    [] n = "categories" -> {[id |-> c] : c \in {"kids", "xxx", ""}}
    [] n = "countries" ->
         {[code |-> c, lang |-> l] : c \in {"fr", "zz", ""}, l \in {"en", "xx"}}
    [] n = "languages" -> {[code |-> c] : c \in {"en", "xx", ""}}
    [] n = "regions" ->
         {[code |-> c, countries |-> l] :
            c \in {"EU", ""},
            l \in {<<>>, <<"fr">>, <<"fr", "zz">>, <<"zz", "zz">>, <<"fr", "toString">>}}
    [] n = "subdivisions" ->
         {[code |-> c, country |-> k] : c \in {"s1", "s9"}, k \in {"fr", "zz"}}

\* Channels that differ in id and replaced_by only (duplicates, self references).
IdChannels == {BaseChannel(id, r) : id \in {"Ab", "ab", ""}, r \in {"", "ab"}}

Areas == { <<>>,
           << <<"c", "fr">>, <<"r", "EU">>, <<"s", "s1">> >>,
           << <<"c", "zz">>, <<"x", "qq">> >>,
           << <<"r", "QQ">>, <<"s", "s9">>, <<"x", "fr">> >>,
           << <<"c">>, <<"q">> >>,
           << <<"r", "constructor">>, <<"s", "__proto__">>, <<"c", "zz">> >> }

\* Channels over every combination of resolving and dangling references.
RefChannels ==
  {Channel(id, country, subdivision, categories, replaced_by, languages, area) :
     id \in {"Ab", ""}, country \in {"fr", "zz", "constructor"}, subdivision \in {"", "s1", "s9"},
     categories \in {<<>>, <<"kids", "xxx">>, <<"xxx", "xxx">>},
     replaced_by \in {"", "Ab", "ab"},
     languages \in {<<"en">>, <<"xx", "en">>},
     area \in Areas}

File(eol, lines, parseError, data) ==
  [eol |-> eol, lines |-> lines, parseError |-> parseError, data |-> data]

\* The disk holding well-formed files with the given rows.
Disk(data) == [fp \in {allFiles[k] : k \in 1..Len(allFiles)} |->
                 File("CRLF", GoodText, FALSE, data[getFilename(fp)])]

\* Raw texts and parser outcomes of one file, well-formed or not.
Shapes ==
  { [eol |-> "LF", lines |-> GoodText, parseError |-> FALSE],
    [eol |-> "CRLF", lines |-> GoodText \o <<<<>>>>, parseError |-> FALSE],
    [eol |-> "CRLF", lines |-> << <<"x">>, <<"x", " ">> >>, parseError |-> FALSE],
    [eol |-> "CRLF", lines |-> GoodText \o << <<"x", ",", "x", ",", "x">> >>,
     parseError |-> FALSE],
    [eol |-> "CRLF", lines |-> << <<"x", ",", "x">>, <<"\"", ",", "\"", ",", "x">> >>,
     parseError |-> FALSE],
    [eol |-> "CRLF", lines |-> << <<"\"", ",", "\"", ",", "x">>, <<"x", ",", "x">> >>,
     parseError |-> FALSE],
    [eol |-> "CRLF", lines |-> GoodText, parseError |-> TRUE] }

Datasets ==
  \* one table other than channels varies
  UNION {{Disk([BaseData EXCEPT ![n] = d]) : d \in SeqUpTo(RowsOf(n), MaxRows)} :
           n \in Names \ {"channels"}} \cup
  \* channels vary in their ids
  {Disk([BaseData EXCEPT !["channels"] = d]) : d \in SeqUpTo(IdChannels, MaxChannelRows)} \cup
  \* one channel varies in its references
  {Disk([BaseData EXCEPT !["channels"] = <<BaseChannel("cd", ""), r>>]) : r \in RefChannels} \cup
  \* one file varies in its raw text
  {[Disk(BaseData) EXCEPT ![fp] = File(s.eol, s.lines, s.parseError, @.data)] :
     fp \in {allFiles[k] : k \in 1..Len(allFiles)}, s \in Shapes}

\* The lists of requested files: none, one, or two.
ArgLists ==
  {<<>>} \cup {<<fp>> : fp \in {allFiles[k] : k \in 1..Len(allFiles)} \cup {"data/foo.csv"}}
    \cup {<<allFiles[k], "data/foo.csv">> : k \in 1..Len(allFiles)}
    \cup {<<"data/channels.csv", "data/blocklist.csv">>,
          <<"data/channels.csv", "data/channels.csv">>}

----------------------------------------------------------------------------
(* main *)

NoIndex == [n \in {} |-> <<>>]

Init ==
  /\ disk \in Datasets
  /\ args = <<>>
  /\ db = NoIndex
  /\ files = NoIndex
  /\ pc = "load"
  /\ li = 1
  /\ ci = 1
  /\ fileErrors = <<>>
  /\ globalErrors = <<>>
  /\ output = <<>>
  /\ exitCode = 0

\* f extended or overwritten at n.
Put(f, n, v) == [m \in DOMAIN f \cup {n} |-> IF m = n THEN v ELSE f[m]]

\* lines 26-47: the file at li fails a format check: the run ends.
FormatFail ==
  /\ pc = "load"
  /\ li <= Len(allFiles)
  /\ FormatCheck(allFiles[li]) # <<>>
  /\ handleError(FormatCheck(allFiles[li]))
  /\ UNCHANGED <<disk, args, db, files, li, ci, fileErrors, globalErrors>>

\* lines 26-65: the file at li is loaded and indexed.
LoadFile ==
  /\ pc = "load"
  /\ li <= Len(allFiles)
  /\ FormatCheck(allFiles[li]) = <<>>
  /\ LET filename == getFilename(allFiles[li])
         data == disk[allFiles[li]].data
     IN /\ db' = Put(db, filename, keyBy(data, KeyField(filename)))
        /\ files' = Put(files, filename, data)
  /\ li' = li + 1
  /\ UNCHANGED <<disk, args, pc, ci, fileErrors, globalErrors, output, exitCode>>

\* line 67: the load loop is over; the requested files are read.
StartValidation ==
  /\ pc = "load"
  /\ li > Len(allFiles)
  /\ \E a \in ArgLists : args' = a
  /\ pc' = "validate"
  /\ UNCHANGED <<disk, db, files, li, ci, fileErrors, globalErrors, output, exitCode>>

\* line 67
toCheck == IF Len(args) > 0 THEN args ELSE allFiles

\* lines 68-70: the requested file has no scheme: the run ends.
MissingScheme ==
  /\ pc = "validate"
  /\ ci <= Len(toCheck)
  /\ getFilename(toCheck[ci]) \notin schemes
  /\ handleError(<<"Error: scheme is missing", getFilename(toCheck[ci])>>)
  /\ UNCHANGED <<disk, args, db, files, li, ci, fileErrors, globalErrors>>

\* lines 113-120: the file's errors, when it has any, are printed and added up.
Report(filepath, errors) ==
  IF Len(errors) > 0
    THEN /\ output' = Append(output, <<"file", filepath, errors>>)
         /\ globalErrors' = globalErrors \o errors
    ELSE UNCHANGED <<output, globalErrors>>

\* lines 68-121: one requested file is validated.
ValidateFile ==
  /\ pc = "validate"
  /\ ci <= Len(toCheck)
  /\ getFilename(toCheck[ci]) \in schemes
  /\ LET filename == getFilename(toCheck[ci])
         rows == files[filename]
     IN /\ fileErrors' = FileErrors(filename, rows)
        /\ files' = [files EXCEPT ![filename] = RowsAfterDuplicates(filename, rows)]
        /\ Report(toCheck[ci], FileErrors(filename, rows))
  /\ ci' = ci + 1
  /\ UNCHANGED <<disk, args, db, pc, li, exitCode>>

\* line 123: errors were accumulated.
FinishWithErrors ==
  /\ pc = "validate"
  /\ ci > Len(toCheck)
  /\ Len(globalErrors) > 0
  /\ handleError(<<"error(s)", Len(globalErrors)>>)
  /\ UNCHANGED <<disk, args, db, files, li, ci, fileErrors, globalErrors>>

\* lines 123-124: no error: main returns.
FinishClean ==
  /\ pc = "validate"
  /\ ci > Len(toCheck)
  /\ Len(globalErrors) = 0
  /\ pc' = "done"
  /\ UNCHANGED <<disk, args, db, files, li, ci, fileErrors, globalErrors, output, exitCode>>

Next ==
  \/ FormatFail
  \/ LoadFile
  \/ StartValidation
  \/ MissingScheme
  \/ ValidateFile
  \/ FinishWithErrors
  \/ FinishClean

Spec == Init /\ [][Next]_vars

----------------------------------------------------------------------------
(* Vocabulary of the claims *)

FilePaths == {allFiles[k] : k \in 1..Len(allFiles)}

\* The entries of the output that are per-file error lists.
FileBlocks == SelectSeq(output, LAMBDA e : e[1] = "file")

\* The fatal messages printed, the final count of errors apart.
FatalMessages ==
  SelectSeq(output, LAMBDA e : e[1] = "fatal" /\ e[2][1] # "error(s)")

RECURSIVE SumLen(_)
\* The number of errors in a sequence of per-file error lists.
SumLen(blocks) ==
  IF blocks = <<>> THEN 0 ELSE Len(Head(blocks)[3]) + SumLen(Tail(blocks))

\* The file fails one of the four format checks of the loader.
Malformed(fp) ==
  \/ disk[fp].eol # "CRLF"
  \/ EndsWithWhitespace(disk[fp].lines)
  \/ ColumnCheck(disk[fp].lines) # 0
  \/ disk[fp].parseError

----------------------------------------------------------------------------
(* C1 *)

\* C1: a finished run has exit status 0 if and only if no fatal error occurred
\* and the errors accumulated over the requested files (those of the reported
\* per-file lists) are none; otherwise its exit status is 1.
ExitStatusReflectsErrors ==
  pc = "done" =>
    /\ exitCode \in {0, 1}
    /\ Len(globalErrors) = SumLen(FileBlocks)
    /\ exitCode = 0 <=>
         /\ \A fp \in FilePaths : ~Malformed(fp)
         /\ \A k \in 1..Len(toCheck) : getFilename(toCheck[k]) \in schemes
         /\ FatalMessages = <<>>
         /\ Len(globalErrors) = 0

\* C1 witness: a run without fatal error that accumulated the errors of two
\* requested files and ended with status 1.
ExitStatusWitness ==
  /\ pc = "done"
  /\ exitCode = 1
  /\ FatalMessages = <<>>
  /\ Len(FileBlocks) >= 2
  /\ Len(globalErrors) >= 2

----------------------------------------------------------------------------
(* C2 *)

\* C2: validation starts only when all seven tables are loaded and indexed, and
\* a run over a malformed file (requested or not) ends in failure at that file,
\* before any table is validated and with no accumulated error.
LoadAllThenFailFast ==
  /\ (pc = "validate" \/ ci > 1 \/ Len(fileErrors) > 0 \/ Len(globalErrors) > 0
        \/ Len(FileBlocks) > 0)
       => /\ DOMAIN db = Names
          /\ DOMAIN files = Names
          /\ \A fp \in FilePaths : ~Malformed(fp)
  /\ (pc = "done" /\ \E fp \in FilePaths : Malformed(fp))
       => /\ exitCode = 1
          /\ Malformed(allFiles[li])
          /\ \A k \in 1..(li - 1) : ~Malformed(allFiles[k])
          /\ DOMAIN db = {getFilename(allFiles[k]) : k \in 1..(li - 1)}
          /\ ci = 1
          /\ globalErrors = <<>>
          /\ Len(output) = 1
          /\ output[1][1] = "fatal"

\* C2 witness: the run stopped at a file with LF line endings that is not the
\* first one, the files before it loaded.
FailFastWitness ==
  /\ pc = "done"
  /\ li = 3
  /\ disk[allFiles[li]].eol = "LF"
  /\ exitCode = 1
  /\ DOMAIN db = {"blocklist", "categories"}

----------------------------------------------------------------------------
(* C3: findDuplicatesById on its own *)

InitDup ==
  /\ \E d \in SeqUpTo(IdChannels, MaxChannelRows) :
       /\ disk = Disk([BaseData EXCEPT !["channels"] = d])
       /\ files = [n \in {"channels"} |-> d]
  /\ args = <<>>
  /\ db = NoIndex
  /\ pc = "dup"
  /\ li = 1
  /\ ci = 1
  /\ fileErrors = <<>>
  /\ globalErrors = <<>>
  /\ output = <<>>
  /\ exitCode = 0

\* line 76: findDuplicatesById(rows), the rows being those of files.
FindDuplicates ==
  /\ pc = "dup"
  /\ fileErrors' = findDuplicatesById(files["channels"])
  /\ files' = [files EXCEPT !["channels"] = LowerCased(@)]
  /\ pc' = "dupdone"
  /\ UNCHANGED <<disk, args, db, li, ci, globalErrors, output, exitCode>>

SpecDup == InitDup /\ [][FindDuplicates]_vars

\* The positions of the rows whose lower-cased id is that of an earlier row.
LaterOccurrences(rows) ==
  {p \in 1..Len(rows) :
     \E q \in 1..(p - 1) : toLowerCase(rows[q].id) = toLowerCase(rows[p].id)}

\* C3: findDuplicatesById returns exactly one error for each row whose
\* lower-cased id is that of an earlier row, none for a first occurrence, each
\* with the row's own line (position + 2), in row order.
OneDuplicateErrorPerLaterRow ==
  pc = "dupdone" =>
    LET rows == disk["data/channels.csv"].data
    IN /\ Len(fileErrors) = Cardinality(LaterOccurrences(rows))
       /\ {fileErrors[k].line : k \in 1..Len(fileErrors)}
            = {(p - 1) + 2 : p \in LaterOccurrences(rows)}
       /\ \A k \in 1..(Len(fileErrors) - 1) : fileErrors[k].line < fileErrors[k + 1].line

----------------------------------------------------------------------------
(* C6: the column-count check on its own *)

Alphabet == {",", "\"", "x"}

InitCols ==
  /\ \E header \in SeqUpTo(Alphabet, MaxLineLen) :
       \E row \in SeqUpTo(Alphabet, MaxLineLen) \ {<<>>} :
         disk = [fp \in {"data/channels.csv"} |-> File("CRLF", <<header, row>>, FALSE, <<>>)]
  /\ args = <<>>
  /\ db = NoIndex
  /\ files = NoIndex
  /\ pc = "cols"
  /\ li = 3
  /\ ci = 1
  /\ fileErrors = <<>>
  /\ globalErrors = <<>>
  /\ output = <<>>
  /\ exitCode = 0

\* lines 37-42 for the file at li.
CheckColumns ==
  /\ pc = "cols"
  /\ LET n == ColumnCheck(disk[allFiles[li]].lines)
     IN IF n # 0
          THEN handleError(<<"Error: row has the wrong number of columns", n, allFiles[li]>>)
          ELSE /\ pc' = "colsdone"
               /\ UNCHANGED <<output, exitCode>>
  /\ UNCHANGED <<disk, args, db, files, li, ci, fileErrors, globalErrors>>

SpecCols == InitCols /\ [][CheckColumns]_vars

\* The comma at p lies between the two double quotes of a pair (the quotes of a
\* line pair up in order: first with second, third with fourth).
Enclosed(line, p) ==
  /\ Cardinality({q \in 1..(p - 1) : line[q] = "\""}) % 2 = 1
  /\ \E q \in (p + 1)..Len(line) : line[q] = "\""

\* One plus the number of commas not enclosed in a pair of double quotes.
UnquotedColumns(line) ==
  1 + Cardinality({p \in 1..Len(line) : line[p] = "," /\ ~Enclosed(line, p)})

\* Every double quote of the line has its partner.
Balanced(line) == Count(line, "\"") % 2 = 0

\* C6: the loader counts one column more than there are commas outside quotes,
\* and accepts a text exactly when every line has the header's count by that
\* same rule (stated for texts whose quotes are balanced, where "enclosed in a
\* pair of double quotes" has one meaning).
ColumnCheckRespectsQuoting ==
  LET lines == disk["data/channels.csv"].lines
  IN (pc \in {"colsdone", "done"} /\ \A i \in 1..Len(lines) : Balanced(lines[i])) =>
       /\ \A i \in 1..Len(lines) : QuoteAwareColumns(lines[i]) = UnquotedColumns(lines[i])
       /\ pc = "colsdone" <=>
            \A i \in 1..Len(lines) : UnquotedColumns(lines[i]) = UnquotedColumns(lines[1])

----------------------------------------------------------------------------
(* Vocabulary of the claims about one validated file *)

\* A file has just been validated: its errors are in fileErrors.
Validated == ci > 1 /\ pc \in {"validate", "done"} /\ ci - 1 <= Len(toCheck)
               /\ getFilename(toCheck[ci - 1]) \in schemes

\* The table validated last, and its rows.
LastTable == getFilename(toCheck[ci - 1])
LastRows == files[LastTable]

\* The keys of a table as its file holds them.
Keys(n) ==
  LET data == disk[CHOOSE fp \in FilePaths : getFilename(fp) = n].data
  IN {data[k][KeyField(n)] : k \in 1..Len(data)}

IsDuplicateError(e) == e.message[1] = "entry with the id already exists"
IsSchemaError(e) == e.message[1] = "is not allowed to be empty"
IsReferentialError(e) == ~IsDuplicateError(e) /\ ~IsSchemaError(e)

\* The values the errors of fileErrors with this line and template name, in order.
Reported(line, template) ==
  LET es == SelectSeq(fileErrors, LAMBDA e : e.line = line /\ e.message[1] = template)
  IN [k \in 1..Len(es) |-> es[k].message[Len(es[k].message)]]

\* The elements of a list that are no key of table n, in order.
Dangling(list, n) == SelectSeq(list, LAMBDA v : v \notin Keys(n))

\* A scalar reference, as a list of one element or none.
Scalar(v, present) == IF present THEN <<v>> ELSE <<>>

----------------------------------------------------------------------------
(* C9 *)

\* The broadcast-area rule: r, c and s select the regions, countries and
\* subdivisions; an element without a code names no key.
AreaDangles(area) ==
  LET code == IF Len(area) >= 2 THEN {area[2]} ELSE {}
  IN \/ area[1] = "r" /\ code \cap Keys("regions") = {}
     \/ area[1] = "c" /\ code \cap Keys("countries") = {}
     \/ area[1] = "s" /\ code \cap Keys("subdivisions") = {}

\* (Keys holds the keys of the rows only: a code that merely names a member of
\* Object.prototype is in no index.)
\* C9: after channels are validated, the broadcast_area errors of every row are
\* those of its elements whose type is r, c or s and whose code is not in the
\* regions, countries or subdivisions index respectively, one each, in order;
\* an element of any other type has none.
BroadcastAreaRule ==
  (Validated /\ LastTable = "channels") =>
    \A p \in 1..Len(LastRows) :
      Reported((p - 1) + 2, "has the wrong broadcast_area")
        = SelectSeq(LastRows[p].broadcast_area, AreaDangles)

----------------------------------------------------------------------------
(* C4 *)

\* The templates of the referential errors of a table.
Templates(n) ==
  CASE n = "channels" ->
         {"has the wrong broadcast_area", "has the wrong subdivision",
          "has the wrong category", "has the wrong replaced_by",
          "has the wrong language", "has the wrong country"}
    [] n = "blocklist" -> {"is missing in the channels.csv"}
    [] n = "countries" -> {"has the wrong language"}
    [] n = "subdivisions" -> {"has the wrong country"}
    [] n = "regions" -> {"has the wrong country"}
    [] OTHER -> {}

\* The references of a row under one rule that do not resolve, in order.
Failing(n, row, template) ==
  CASE n = "channels" /\ template = "has the wrong broadcast_area" ->
         SelectSeq(row.broadcast_area, AreaDangles)
    [] n = "channels" /\ template = "has the wrong subdivision" ->
         Dangling(Scalar(row.subdivision, row.subdivision # ""), "subdivisions")
    [] n = "channels" /\ template = "has the wrong category" ->
         Dangling(row.categories, "categories")
    [] n = "channels" /\ template = "has the wrong replaced_by" ->
         Dangling(Scalar(row.replaced_by, row.replaced_by # ""), "channels")
    [] n = "channels" /\ template = "has the wrong language" ->
         Dangling(row.languages, "languages")
    [] n = "channels" /\ template = "has the wrong country" ->
         Dangling(<<row.country>>, "countries")
    [] n = "blocklist" -> Dangling(<<row.channel>>, "channels")
    [] n = "countries" -> Dangling(<<row.lang>>, "languages")
    [] n = "subdivisions" -> Dangling(<<row.country>>, "countries")
    [] n = "regions" -> Dangling(row.countries, "countries")

\* C4: the referential errors of a validated table are, for every row and every
\* rule of the table, one per reference of the row that does not resolve (in
\* the order of the references) and no other, each with line = position + 2;
\* every rule is applied whatever the other rules of the row found.  A single
\* regions row with a key and one unknown country gives the file one error.
OneErrorPerFailingReference ==
  Validated =>
    /\ \A p \in 1..Len(LastRows) : \A t \in Templates(LastTable) :
         Reported((p - 1) + 2, t) = Failing(LastTable, LastRows[p], t)
    /\ \A k \in 1..Len(fileErrors) :
         IsReferentialError(fileErrors[k]) =>
           /\ fileErrors[k].message[1] \in Templates(LastTable)
           /\ fileErrors[k].line \in 2..(Len(LastRows) + 1)
    /\ (/\ LastTable = "regions"
        /\ Len(LastRows) = 1
        /\ LastRows[1].code # ""
        /\ Len(Dangling(LastRows[1].countries, "countries")) = 1)
         => Len(fileErrors) = 1

----------------------------------------------------------------------------
(* C8 *)

\* 1 for a duplicate error, 2 for a referential error, 3 for a schema error.
Stage(e) == IF IsDuplicateError(e) THEN 1 ELSE IF IsSchemaError(e) THEN 3 ELSE 2

\* Duplicate errors, then referential errors by line, then schema errors by line.
Ordered(errors) ==
  \A j \in 1..Len(errors) : \A k \in (j + 1)..Len(errors) :
    /\ Stage(errors[j]) <= Stage(errors[k])
    /\ (Stage(errors[j]) = Stage(errors[k]) /\ Stage(errors[j]) # 1)
         => errors[j].line <= errors[k].line

\* C8: every error list reported for a file holds its duplicate errors first,
\* then its referential errors by row, then its schema errors by row.
PerFileErrorOrder ==
  /\ Ordered(fileErrors)
  /\ \A b \in 1..Len(FileBlocks) : Ordered(FileBlocks[b][3])

\* C8 witness: a reported list with a duplicate error on line 3, a referential
\* error on line 2, and schema errors.
ErrorOrderWitness ==
  /\ Len(FileBlocks) > 0
  /\ LET errors == FileBlocks[Len(FileBlocks)][3]
     IN /\ \E k \in 1..Len(errors) : IsDuplicateError(errors[k]) /\ errors[k].line = 3
        /\ \E k \in 1..Len(errors) : IsReferentialError(errors[k]) /\ errors[k].line = 2
        /\ \E k \in 1..Len(errors) : IsSchemaError(errors[k]) /\ errors[k].line = 2
        /\ \E k \in 1..Len(errors) : IsSchemaError(errors[k]) /\ errors[k].line = 3

----------------------------------------------------------------------------
(* C5 *)

\* C5: a run that ends on a requested file without scheme prints the fatal
\* message alone: no per-file error list, not even of the files requested
\* before that one.
NoPartialResultsOnMissingScheme ==
  (pc = "done" /\ \E k \in 1..Len(output) :
                    output[k][1] = "fatal" /\ output[k][2][1] = "Error: scheme is missing")
    => /\ Len(FileBlocks) = 0
       /\ Len(output) = 1

----------------------------------------------------------------------------
(* C7 *)

\* The index of a table as the validators read it: key -> row.
Index(n) == [k \in DOMAIN db[n] |-> files[n][db[n][k]]]

\* C7: once Phase 1 is over the channels index holds the lower-cased id of
\* every channel row, and a blocklist.channel or channels.replaced_by spelled as
\* the lower-cased id of a channel is reported by no error.
ChannelsIndexedByLowerCasedId ==
  LET channels == disk["data/channels.csv"].data
      lowered == {toLowerCase(channels[k].id) : k \in 1..Len(channels)}
  IN /\ (pc = "validate" /\ DOMAIN db = Names) => lowered \subseteq DOMAIN db["channels"]
     /\ (Validated /\ LastTable = "blocklist") =>
          \A p \in 1..Len(LastRows) :
            LastRows[p].channel \in lowered =>
              Reported((p - 1) + 2, "is missing in the channels.csv") = <<>>
     /\ (Validated /\ LastTable = "channels") =>
          \A p \in 1..Len(LastRows) :
            LastRows[p].replaced_by \in lowered =>
              Reported((p - 1) + 2, "has the wrong replaced_by") = <<>>

----------------------------------------------------------------------------
(* C10 *)

\* The Database as the validators read it: table -> key -> row.
Database == [n \in DOMAIN db |-> Index(n)]

\* C10: no step of Phase 2 changes the Database (its keys and the fields of its
\* rows) or the loaded rows.
ValidationIsReadOnly ==
  [][pc = "validate" => (Database' = Database /\ files' = files)]_vars

----------------------------------------------------------------------------
(* C7, as the code has it *)

\* C7 amended: the channels index is keyed by the id as loaded: once Phase 1 is
\* over its keys are exactly the ids of the channel rows, and a
\* blocklist.channel, or a replaced_by that is present, is reported by no error
\* exactly when it is the id of a channel row as loaded or the name of a member
\* of Object.prototype, which the lookup finds on every index.
ChannelsIndexedByIdAsLoaded ==
  LET channels == disk["data/channels.csv"].data
      ids == {channels[k].id : k \in 1..Len(channels)}
  IN /\ (pc = "validate" /\ DOMAIN db = Names) => DOMAIN db["channels"] = ids
     /\ (Validated /\ LastTable = "blocklist") =>
          \A p \in 1..Len(LastRows) :
            LastRows[p].channel \in ids \cup ObjectPrototype <=>
              Reported((p - 1) + 2, "is missing in the channels.csv") = <<>>
     /\ (Validated /\ LastTable = "channels") =>
          \A p \in 1..Len(LastRows) :
            LastRows[p].replaced_by # "" =>
              (LastRows[p].replaced_by \in ids \cup ObjectPrototype <=>
                 Reported((p - 1) + 2, "has the wrong replaced_by") = <<>>)

\* C7 witness: the blocklist names "ab" and "Ab", the only channel is "Ab": the
\* first is reported missing, the second is not.
IdAsLoadedWitness ==
  /\ Validated
  /\ LastTable = "blocklist"
  /\ DOMAIN db["channels"] = {"Ab"}
  /\ Len(LastRows) = 2
  /\ LastRows[1].channel = "ab"
  /\ LastRows[2].channel = "Ab"
  /\ Reported(2, "is missing in the channels.csv") = <<"ab">>
  /\ Reported(3, "is missing in the channels.csv") = <<>>

====
